---- MODULE Spec2Model ----
(***************************************************************************)
(* Model of smart_hvac_system.py: a Streamlit script that is re-executed   *)
(* top to bottom on every widget interaction.  The state is the widget     *)
(* state that survives between two executions plus what the last execution *)
(* computed and displayed.  One action = one user interaction followed by  *)
(* the complete re-execution of the script.                                *)
(*                                                                         *)
(* Temperatures are fixed-point numbers: one unit ("tick") is              *)
(* 1/TempResolution degree Celsius, so that the non-integer temperatures   *)
(* the weather provider returns (units=metric, JSON float) are covered.    *)
(* The manual number_input only yields whole degrees.                      *)
(*                                                                         *)
(* Python None is the empty tuple, a present value v is <<v>>.             *)
(***************************************************************************)
EXTENDS Integers, Sequences, FiniteSets

VARIABLES
    outdoor_temp_threshold,   \* slider "Turn ON AC if Outdoor Temp is Above"
    aqi_threshold,            \* slider "AQI Threshold for Air Purifier"
    simulate_occupancy,       \* checkbox "Simulate Random Occupancy" (widget value)
    manual_override,          \* checkbox "Override Occupancy Manually"
    is_room_occupied,         \* occupancy the last execution used
    weather_source,           \* radio "Real-time Weather Data" / "Manual Input"
    status_code,              \* HTTP status fetch_weather saw in the last execution, or None
    temp,                     \* temp / manual_temp of the last execution (ticks), or None
    humidity,                 \* humidity / manual_humidity of the last execution, or None
    aqi,                      \* aqi of the last execution, or None
    season,                   \* season label of the last execution, or "unset"
    ac_status,
    humidifier_status,
    dehumidifier_status,
    air_purifier_status,
    weather_image,            \* file chosen by get_weather_image, or "unset"
    unoccupied_warning,       \* st.warning of determine_actions was emitted
    determine_season_calls,   \* arguments determine_season was invoked with in the last execution
    determine_actions_calls   \* arguments determine_actions was invoked with in the last execution

vars == <<outdoor_temp_threshold, aqi_threshold, simulate_occupancy, manual_override,
          is_room_occupied, weather_source, status_code, temp, humidity, aqi, season,
          ac_status, humidifier_status, dehumidifier_status, air_purifier_status,
          weather_image, unoccupied_warning, determine_season_calls,
          determine_actions_calls>>

widgets == <<outdoor_temp_threshold, aqi_threshold, simulate_occupancy, manual_override,
             weather_source>>

None == <<>>
Some(v) == <<v>>

-----------------------------------------------------------------------------
(* Program constants *)

RECOMMENDED_MIN_TEMP == 20
RECOMMENDED_MAX_TEMP == 26
RECOMMENDED_OUTDOOR_THRESHOLD == 27
AQI_THRESHOLD == 100

PreferredMinDefault == 22
PreferredMaxDefault == 26
OutdoorThresholdMin == 15
OutdoorThresholdMax == 35
OutdoorThresholdDefault == 25
AqiSliderMin == 50
AqiSliderMax == 300

ManualTempMin == -50
ManualTempMax == 50
ManualTempDefault == 22
ManualHumidityMin == 0
ManualHumidityMax == 100
ManualHumidityDefault == 50
ManualAqiMin == 0
ManualAqiMax == 500
ManualAqiDefault == 75

HTTP_OK == 200

RealTime == "Real-time Weather Data"
Manual == "Manual Input"

-----------------------------------------------------------------------------
(* Bounds of the model *)

\* ticks per degree Celsius
TempResolution == 2
\* how far around every decision boundary the inputs are sampled
Radius == 1

Deg(d) == d * TempResolution

Near(c) == (c - Radius)..(c + Radius)

\* temperatures (degrees) at which determine_season / get_weather_image branch
TempBoundaries == {15, 20, 26, 30}
\* humidities at which the humidity logic branches
HumidityBoundaries == {30, 40, 50, 60}

ManualTemps ==
    {d \in ManualTempMin..ManualTempMax :
        \/ d \in {ManualTempMin, ManualTempDefault, ManualTempMax}
        \/ \E b \in TempBoundaries : d \in Near(b)}

Humidities ==
    {h \in ManualHumidityMin..ManualHumidityMax :
        \/ h \in {ManualHumidityMin, ManualHumidityDefault, ManualHumidityMax}
        \/ \E b \in HumidityBoundaries : h \in Near(b)}

ManualAqis ==
    {ManualAqiMin, ManualAqiDefault, AQI_THRESHOLD - 1, AQI_THRESHOLD,
     AQI_THRESHOLD + 1, ManualAqiMax}

\* slider positions tried in the session
OutdoorThresholds == {OutdoorThresholdDefault, RECOMMENDED_OUTDOOR_THRESHOLD}
AqiThresholds == {AqiSliderMin, AQI_THRESHOLD, AqiSliderMax}

\* what the providers may answer.  Temperatures: the ticks next to every boundary
\* (whole degrees are covered by the manual input); one humidity inside every
\* humidity band; the provider's best index and an index above AQI_THRESHOLD.
FetchedTemps == {Deg(b) + k : b \in TempBoundaries, k \in {-1, 1}}
FetchedHumidities == {25, 35, 45, 55, 65}
FetchedAqis == {1, 150}
FailureCodes == {404}
WeatherResponses ==
    {[status_code |-> HTTP_OK, temp |-> t, humidity |-> h] :
        t \in FetchedTemps, h \in FetchedHumidities}
    \cup {[status_code |-> c, temp |-> 0, humidity |-> 0] : c \in FailureCodes}
AqiResponses ==
    {[status_code |-> HTTP_OK, aqi |-> a] : a \in FetchedAqis}
    \cup {[status_code |-> c, aqi |-> 0] : c \in FailureCodes}

\* arguments of the direct calls of the engine
EngineTemps == {Deg(d) : d \in ManualTemps} \cup FetchedTemps
EngineAqis == {None} \cup {Some(a) : a \in ManualAqis}
EngineThresholds == OutdoorThresholdMin..OutdoorThresholdMax
EngineSeasons == {"Winter", "Mild", "Energy Saving", "Summer", "Autumn"}

\* all temperatures of the manual range, in ticks
SweepTemps == Deg(ManualTempMin)..Deg(ManualTempMax)

-----------------------------------------------------------------------------
(* The functions of the script *)

\* variant: the status of the response is not looked at
fetch_weather_ignores_status(response) ==
    <<Some(response.temp), Some(response.humidity)>>

\* <<temp, humidity>> of the provider's response, or <<None, None>>; the
\* coordinates only select the air quality response and are left out
fetch_weather(response) ==
    IF response.status_code = HTTP_OK
    THEN <<Some(response.temp), Some(response.humidity)>>
    ELSE <<None, None>>

fetch_aqi(response) ==
    IF response.status_code = HTTP_OK THEN Some(response.aqi) ELSE None

\* variant: the Energy Saving band is tested before the Mild bands
determine_season_energy_first(temperature) ==
    IF temperature < Deg(15) THEN "Winter"
    ELSE IF Deg(20) <= temperature /\ temperature <= Deg(26) THEN "Energy Saving"
    ELSE IF \/ (Deg(15) <= temperature /\ temperature <= Deg(20))
            \/ (Deg(26) <= temperature /\ temperature <= Deg(30)) THEN "Mild"
    ELSE "Summer"

\* variant: the two-season policy
determine_season_binary(temperature) ==
    IF temperature < Deg(15) THEN "Winter" ELSE "Summer"

determine_season(temperature) ==
    IF temperature < Deg(15) THEN "Winter"
    ELSE IF \/ (Deg(15) <= temperature /\ temperature <= Deg(20))
            \/ (Deg(26) <= temperature /\ temperature <= Deg(30)) THEN "Mild"
    ELSE IF Deg(20) <= temperature /\ temperature <= Deg(26) THEN "Energy Saving"
    ELSE "Summer"

\* variant: the upper mild band is open at 26
get_weather_image_open_at_26(t) ==
    IF t < Deg(15) THEN "cold_weather.png"
    ELSE IF t > Deg(30) THEN "hot_weather.png"
    ELSE IF \/ (Deg(15) <= t /\ t <= Deg(20))
            \/ (Deg(26) < t /\ t <= Deg(30)) THEN "mild_weather.png"
    ELSE "energy_saving.png"

get_weather_image(t) ==
    IF t < Deg(15) THEN "cold_weather.png"
    ELSE IF t > Deg(30) THEN "hot_weather.png"
    ELSE IF \/ (Deg(15) <= t /\ t <= Deg(20))
            \/ (Deg(26) <= t /\ t <= Deg(30)) THEN "mild_weather.png"
    ELSE "energy_saving.png"

\* Python truthiness of "aqi": None and 0 are false
Truthy(a) == a # None /\ a[1] # 0

\* variant: the AC also runs at the threshold
ac_logic_inclusive(outdoor_temp, outdoor_threshold) ==
    IF outdoor_temp >= Deg(outdoor_threshold) THEN "ON" ELSE "OFF"

ac_logic(outdoor_temp, outdoor_threshold) ==
    IF outdoor_temp > Deg(outdoor_threshold) THEN "ON" ELSE "OFF"

\* variant: the Winter dehumidifier cut-off is 60, as in Summer
humidity_logic_winter_60(seasn, outdoor_humidity) ==
    IF seasn = "Winter"
    THEN IF outdoor_humidity < 30 THEN <<"ON", "OFF">>
         ELSE IF outdoor_humidity > 60 THEN <<"OFF", "ON">>
         ELSE <<"OFF", "OFF">>
    ELSE IF seasn = "Summer"
    THEN IF outdoor_humidity < 40 THEN <<"ON", "OFF">>
         ELSE IF outdoor_humidity > 60 THEN <<"OFF", "ON">>
         ELSE <<"OFF", "OFF">>
    ELSE <<"OFF", "OFF">>

\* variant: two independent tests instead of if/elif, the Summer humidifier
\* comparison reversed
humidity_logic_independent_tests(seasn, outdoor_humidity) ==
    IF seasn = "Winter"
    THEN <<IF outdoor_humidity < 30 THEN "ON" ELSE "OFF",
           IF outdoor_humidity > 50 THEN "ON" ELSE "OFF">>
    ELSE IF seasn = "Summer"
    THEN <<IF outdoor_humidity > 40 THEN "ON" ELSE "OFF",
           IF outdoor_humidity > 60 THEN "ON" ELSE "OFF">>
    ELSE <<"OFF", "OFF">>

\* <<humidifier_status, dehumidifier_status>>
humidity_logic(seasn, outdoor_humidity) ==
    IF seasn = "Winter"
    THEN IF outdoor_humidity < 30 THEN <<"ON", "OFF">>
         ELSE IF outdoor_humidity > 50 THEN <<"OFF", "ON">>
         ELSE <<"OFF", "OFF">>
    ELSE IF seasn = "Summer"
    THEN IF outdoor_humidity < 40 THEN <<"ON", "OFF">>
         ELSE IF outdoor_humidity > 60 THEN <<"OFF", "ON">>
         ELSE <<"OFF", "OFF">>
    ELSE <<"OFF", "OFF">>

\* variant: an absent index is treated as bad air
air_purifier_logic_absent_is_bad(a) ==
    IF a = None THEN "ON"
    ELSE IF a[1] > AQI_THRESHOLD THEN "ON" ELSE "OFF"

\* the comparison is against the module constant; the slider value aqi_threshold
\* is not an argument of determine_actions and is not read by it
air_purifier_logic(a) ==
    IF Truthy(a) /\ a[1] > AQI_THRESHOLD THEN "ON" ELSE "OFF"

\* variant: the air purifier logic is outside the occupancy test
determine_actions_purifier_ungated(outdoor_temp, outdoor_humidity, a, preferred_min, preferred_max, outdoor_threshold, seasn, occupied) ==
    IF occupied
    THEN <<ac_logic(outdoor_temp, outdoor_threshold),
           humidity_logic(seasn, outdoor_humidity)[1],
           humidity_logic(seasn, outdoor_humidity)[2],
           air_purifier_logic(a)>>
    ELSE <<"OFF", "OFF", "OFF", air_purifier_logic(a)>>

\* <<ac_status, humidifier_status, dehumidifier_status, air_purifier_status>>
determine_actions(outdoor_temp, outdoor_humidity, a, preferred_min, preferred_max, outdoor_threshold, seasn, occupied) ==
    IF occupied
    THEN <<ac_logic(outdoor_temp, outdoor_threshold),
           humidity_logic(seasn, outdoor_humidity)[1],
           humidity_logic(seasn, outdoor_humidity)[2],
           air_purifier_logic(a)>>
    ELSE <<"OFF", "OFF", "OFF", "OFF">>

\* the record of one invocation of determine_actions
ActionsCall(outdoor_temp, outdoor_humidity, a, preferred_min, preferred_max, outdoor_threshold, seasn, occupied) ==
    [outdoor_temp |-> outdoor_temp, outdoor_humidity |-> outdoor_humidity, aqi |-> a,
     preferred_min |-> preferred_min, preferred_max |-> preferred_max,
     outdoor_threshold |-> outdoor_threshold, season |-> seasn,
     is_room_occupied |-> occupied]

-----------------------------------------------------------------------------
(* One execution of the script *)

\* sidebar, "Room Occupancy": cb is the value of the "Room is Occupied" checkbox,
\* rnd the outcome of random.choice
Occupancy(ovr, sim, cb, rnd) ==
    IF ovr THEN cb
    ELSE IF sim THEN rnd
    ELSE cb

\* nothing is computed or displayed below the weather source selection
ShowNothing ==
    /\ temp' = None
    /\ humidity' = None
    /\ aqi' = None
    /\ season' = "unset"
    /\ ac_status' = "unset"
    /\ humidifier_status' = "unset"
    /\ dehumidifier_status' = "unset"
    /\ air_purifier_status' = "unset"
    /\ weather_image' = "unset"
    /\ unoccupied_warning' = FALSE
    /\ determine_season_calls' = {}
    /\ determine_actions_calls' = {}

\* season, device states and image for temperature t (ticks), humidity h and air
\* quality a (None or <<value>>), as both call sites compute them
Evaluate(t, h, a, thr, occ) ==
    LET seasn == determine_season(t)
        acts == determine_actions(t, h, a, PreferredMinDefault, PreferredMaxDefault,
                                  thr, seasn, occ)
    IN  /\ temp' = Some(t)
        /\ humidity' = Some(h)
        /\ aqi' = a
        /\ season' = seasn
        /\ ac_status' = acts[1]
        /\ humidifier_status' = acts[2]
        /\ dehumidifier_status' = acts[3]
        /\ air_purifier_status' = acts[4]
        /\ weather_image' = get_weather_image(t)
        /\ unoccupied_warning' = ~occ
        /\ determine_season_calls' = {t}
        /\ determine_actions_calls' =
               {ActionsCall(t, h, a, PreferredMinDefault, PreferredMaxDefault,
                            thr, seasn, occ)}

\* the branch "Real-time Weather Data" with the button pressed: weather and
\* air_pollution are the two providers' responses
FetchWeatherAndAqi(weather, air_pollution, thr, occ) ==
    LET fw == fetch_weather(weather)
    IN  /\ status_code' = Some(weather.status_code)
        /\ IF fw[1] # None
           THEN Evaluate(fw[1][1], fw[2][1], fetch_aqi(air_pollution), thr, occ)
           ELSE ShowNothing

\* the branch "Manual Input"
ManualInput(manual_temp, manual_humidity, manual_aqi, thr, occ) ==
    /\ status_code' = None
    /\ Evaluate(Deg(manual_temp), manual_humidity, Some(manual_aqi), thr, occ)

\* values of the widgets that exist only while they are rendered
RoomCheckbox ==
    IF manual_override \/ ~simulate_occupancy THEN is_room_occupied ELSE TRUE
ManualTempNow ==
    IF weather_source = Manual THEN temp[1] \div TempResolution ELSE ManualTempDefault
ManualHumidityNow ==
    IF weather_source = Manual THEN humidity[1] ELSE ManualHumidityDefault
ManualAqiNow ==
    IF weather_source = Manual THEN aqi[1] ELSE ManualAqiDefault
RandomChoices(ovr, sim) ==
    IF ~ovr /\ sim THEN BOOLEAN ELSE {TRUE}

\* a complete execution in which the "Fetch Weather and AQI" button is not pressed
Rerun(thr, athr, sim, ovr, cb, src, mt, mh, ma) ==
    \E rnd \in RandomChoices(ovr, sim) :
        LET occ == Occupancy(ovr, sim, cb, rnd)
        IN  /\ outdoor_temp_threshold' = thr
            /\ aqi_threshold' = athr
            /\ simulate_occupancy' = sim
            /\ manual_override' = ovr
            /\ is_room_occupied' = occ
            /\ weather_source' = src
            /\ IF src = RealTime
               THEN status_code' = None /\ ShowNothing
               ELSE ManualInput(mt, mh, ma, thr, occ)

-----------------------------------------------------------------------------
(* User interactions, each followed by the execution of the script *)

Init ==
    /\ outdoor_temp_threshold = OutdoorThresholdDefault
    /\ aqi_threshold = AQI_THRESHOLD
    /\ simulate_occupancy = FALSE
    /\ manual_override = FALSE
    /\ is_room_occupied = TRUE
    /\ weather_source = RealTime
    /\ status_code = None
    /\ temp = None
    /\ humidity = None
    /\ aqi = None
    /\ season = "unset"
    /\ ac_status = "unset"
    /\ humidifier_status = "unset"
    /\ dehumidifier_status = "unset"
    /\ air_purifier_status = "unset"
    /\ weather_image = "unset"
    /\ unoccupied_warning = FALSE
    /\ determine_season_calls = {}
    /\ determine_actions_calls = {}

SetOutdoorThreshold ==
    \E v \in OutdoorThresholds \ {outdoor_temp_threshold} :
        Rerun(v, aqi_threshold, simulate_occupancy, manual_override, RoomCheckbox,
              weather_source, ManualTempNow, ManualHumidityNow, ManualAqiNow)

SetAqiThreshold ==
    \E v \in AqiThresholds \ {aqi_threshold} :
        Rerun(outdoor_temp_threshold, v, simulate_occupancy, manual_override,
              RoomCheckbox, weather_source, ManualTempNow, ManualHumidityNow,
              ManualAqiNow)

ToggleSimulateOccupancy ==
    Rerun(outdoor_temp_threshold, aqi_threshold, ~simulate_occupancy, manual_override,
          RoomCheckbox, weather_source, ManualTempNow, ManualHumidityNow, ManualAqiNow)

ToggleManualOverride ==
    Rerun(outdoor_temp_threshold, aqi_threshold, simulate_occupancy, ~manual_override,
          RoomCheckbox, weather_source, ManualTempNow, ManualHumidityNow, ManualAqiNow)

ToggleRoomOccupied ==
    /\ manual_override \/ ~simulate_occupancy
    /\ Rerun(outdoor_temp_threshold, aqi_threshold, simulate_occupancy, manual_override,
             ~is_room_occupied, weather_source, ManualTempNow, ManualHumidityNow,
             ManualAqiNow)

\* the button writes session-state keys that no widget and no statement reads
ApplyBestSettings ==
    Rerun(outdoor_temp_threshold, aqi_threshold, simulate_occupancy, manual_override,
          RoomCheckbox, weather_source, ManualTempNow, ManualHumidityNow, ManualAqiNow)

SetWeatherSource ==
    \E src \in {RealTime, Manual} \ {weather_source} :
        Rerun(outdoor_temp_threshold, aqi_threshold, simulate_occupancy, manual_override,
              RoomCheckbox, src, ManualTempDefault, ManualHumidityDefault,
              ManualAqiDefault)

SetManualTemp ==
    /\ weather_source = Manual
    /\ \E v \in ManualTemps \ {ManualTempNow} :
          Rerun(outdoor_temp_threshold, aqi_threshold, simulate_occupancy,
                manual_override, RoomCheckbox, Manual, v, ManualHumidityNow, ManualAqiNow)

SetManualHumidity ==
    /\ weather_source = Manual
    /\ \E v \in Humidities \ {ManualHumidityNow} :
          Rerun(outdoor_temp_threshold, aqi_threshold, simulate_occupancy,
                manual_override, RoomCheckbox, Manual, ManualTempNow, v, ManualAqiNow)

SetManualAqi ==
    /\ weather_source = Manual
    /\ \E v \in ManualAqis \ {ManualAqiNow} :
          Rerun(outdoor_temp_threshold, aqi_threshold, simulate_occupancy,
                manual_override, RoomCheckbox, Manual, ManualTempNow, ManualHumidityNow, v)

ClickFetchWeatherAndAqi ==
    /\ weather_source = RealTime
    /\ \E weather \in WeatherResponses, air_pollution \in AqiResponses,
          rnd \in RandomChoices(manual_override, simulate_occupancy) :
          LET occ == Occupancy(manual_override, simulate_occupancy, RoomCheckbox, rnd)
          IN  /\ is_room_occupied' = occ
              /\ UNCHANGED widgets
              /\ FetchWeatherAndAqi(weather, air_pollution, outdoor_temp_threshold, occ)

Next ==
    \/ SetOutdoorThreshold
    \/ SetAqiThreshold
    \/ ToggleSimulateOccupancy
    \/ ToggleManualOverride
    \/ ToggleRoomOccupied
    \/ ApplyBestSettings
    \/ SetWeatherSource
    \/ SetManualTemp
    \/ SetManualHumidity
    \/ SetManualAqi
    \/ ClickFetchWeatherAndAqi

Spec == Init /\ [][Next]_vars

-----------------------------------------------------------------------------
(* determine_actions applied to arbitrary arguments *)

CallDetermineActions ==
    /\ determine_actions_calls = {}
    /\ \E t \in EngineTemps, h \in Humidities, a \in EngineAqis,
          thr \in EngineThresholds, seasn \in EngineSeasons, occ \in BOOLEAN :
          LET acts == determine_actions(t, h, a, PreferredMinDefault,
                                        PreferredMaxDefault, thr, seasn, occ)
          IN  /\ determine_actions_calls' =
                     {ActionsCall(t, h, a, PreferredMinDefault, PreferredMaxDefault,
                                  thr, seasn, occ)}
              /\ ac_status' = acts[1]
              /\ humidifier_status' = acts[2]
              /\ dehumidifier_status' = acts[3]
              /\ air_purifier_status' = acts[4]
              /\ unoccupied_warning' = ~occ
              /\ UNCHANGED <<widgets, is_room_occupied, status_code, temp, humidity, aqi,
                             season, weather_image, determine_season_calls>>

NextEngine == CallDetermineActions

SpecEngine == Init /\ [][NextEngine]_vars

-----------------------------------------------------------------------------
(* determine_season and get_weather_image applied to every temperature of *)
(* the manual range                                                       *)

CallDetermineSeason ==
    /\ determine_season_calls = {}
    /\ \E t \in SweepTemps :
          /\ determine_season_calls' = {t}
          /\ season' = determine_season(t)
          /\ weather_image' = get_weather_image(t)
          /\ UNCHANGED <<widgets, is_room_occupied, status_code, temp, humidity, aqi,
                         ac_status, humidifier_status, dehumidifier_status,
                         air_purifier_status, unoccupied_warning,
                         determine_actions_calls>>

NextSeason == CallDetermineSeason

SpecSeason == Init /\ [][NextSeason]_vars

-----------------------------------------------------------------------------
(* Properties *)

WholeDegree(t) == t % TempResolution = 0

\* C1 - occupancy gate: whenever determine_actions was invoked with
\* is_room_occupied false, whatever the other arguments, the four device states
\* it returned are all "OFF".
C1_OccupancyGate ==
    \A c \in determine_actions_calls :
        ~c.is_room_occupied =>
            /\ ac_status = "OFF"
            /\ humidifier_status = "OFF"
            /\ dehumidifier_status = "OFF"
            /\ air_purifier_status = "OFF"

\* a vacant room in which every rule would otherwise switch a device on
C1_Witness ==
    \E c \in determine_actions_calls :
        /\ ~c.is_room_occupied
        /\ c.outdoor_temp > Deg(c.outdoor_threshold)
        /\ c.season = "Winter"
        /\ c.outdoor_humidity < 30
        /\ c.aqi = Some(ManualAqiMax)
        /\ ac_status = "OFF"
        /\ humidifier_status = "OFF"
        /\ air_purifier_status = "OFF"

\* C2 - air-quality rule as claimed: for an occupied room the air purifier is ON
\* exactly when the AQI is present and strictly greater than the value of the
\* "AQI Threshold for Air Purifier" slider.
C2_PurifierFollowsSlider ==
    \A c \in determine_actions_calls :
        c.is_room_occupied =>
            (air_purifier_status = "ON" <=> (c.aqi # None /\ c.aqi[1] > aqi_threshold))

\* the band the claimed table gives a temperature
ClaimedBand(t) ==
    IF t < Deg(15) THEN "Winter"
    ELSE IF t <= Deg(20) THEN "Mild"
    ELSE IF t <= Deg(26) THEN "Energy Saving"
    ELSE IF t <= Deg(30) THEN "Mild"
    ELSE "Summer"

\* the band of the amended table
AmendedBand(t) ==
    IF t < Deg(15) THEN "Winter"
    ELSE IF t <= Deg(20) THEN "Mild"
    ELSE IF t < Deg(26) THEN "Energy Saving"
    ELSE IF t <= Deg(30) THEN "Mild"
    ELSE "Summer"

\* C3 as claimed - banded season policy: for every whole temperature -50..50,
\* determine_season returns Winter below 15, Mild for 15..20, Energy Saving for
\* 20 < t <= 26, Mild for 26 < t <= 30 and Summer above 30.
C3_BandedPolicyAsClaimed ==
    \A t \in determine_season_calls : WholeDegree(t) => season = ClaimedBand(t)

\* C3 amended - banded season policy: for every temperature of -50..50,
\* determine_season returns Winter below 15, Mild for 15 <= t <= 20, Energy
\* Saving for 20 < t < 26, Mild for 26 <= t <= 30 and Summer above 30; the
\* boundary value 26 resolves to Mild.
C3_BandedPolicy ==
    \A t \in determine_season_calls : season = AmendedBand(t)

\* the boundary value 26 was classified
C3_Witness ==
    /\ Deg(26) \in determine_season_calls
    /\ season = "Mild"

\* C4 - mutual exclusivity: whatever humidity, season and occupancy
\* determine_actions was invoked with, it never returned humidifier "ON" together
\* with dehumidifier "ON".
C4_MutualExclusivity ==
    \A c \in determine_actions_calls :
        ~(humidifier_status = "ON" /\ dehumidifier_status = "ON")

\* a humid Summer call in an occupied room: one of the two devices is ON
C4_Witness ==
    \E c \in determine_actions_calls :
        /\ c.is_room_occupied
        /\ c.season = "Summer"
        /\ c.outdoor_humidity > 60
        /\ dehumidifier_status = "ON"
        /\ humidifier_status = "OFF"

\* C5 - humidity rule per band: for an occupied room, in Winter the humidifier is
\* ON exactly when humidity < 30 and the dehumidifier exactly when humidity > 50;
\* in Summer the humidifier is ON exactly when humidity < 40 and the dehumidifier
\* exactly when humidity > 60 (so between the two thresholds, inclusive, both
\* are OFF).
C5_HumidityRulePerBand ==
    \A c \in determine_actions_calls :
        c.is_room_occupied =>
            /\ c.season = "Winter" =>
                  /\ humidifier_status = "ON" <=> c.outdoor_humidity < 30
                  /\ dehumidifier_status = "ON" <=> c.outdoor_humidity > 50
            /\ c.season = "Summer" =>
                  /\ humidifier_status = "ON" <=> c.outdoor_humidity < 40
                  /\ dehumidifier_status = "ON" <=> c.outdoor_humidity > 60

\* Winter at the upper threshold itself: both devices OFF
C5_Witness ==
    \E c \in determine_actions_calls :
        /\ c.is_room_occupied
        /\ c.season = "Winter"
        /\ c.outdoor_humidity = 50
        /\ humidifier_status = "OFF"
        /\ dehumidifier_status = "OFF"

\* C6 - cooling rule: for an occupied room the AC is ON exactly when the outdoor
\* temperature is strictly greater than the threshold passed by the caller,
\* whatever the humidity, the AQI and the season.
C6_CoolingRule ==
    \A c \in determine_actions_calls :
        c.is_room_occupied =>
            (ac_status = "ON" <=> c.outdoor_temp > Deg(c.outdoor_threshold))

\* temperature equal to the threshold: the AC is OFF
C6_Witness ==
    \E c \in determine_actions_calls :
        /\ c.is_room_occupied
        /\ c.outdoor_temp = Deg(c.outdoor_threshold)
        /\ ac_status = "OFF"

\* C7 - absent AQI: whenever determine_actions was invoked with aqi None it
\* returned the air purifier OFF, and the other three device states are those
\* it returns for the same arguments with any present AQI value.
C7_AbsentAqi ==
    \A c \in determine_actions_calls :
        c.aqi = None =>
            /\ air_purifier_status = "OFF"
            /\ \A a \in ManualAqis :
                  LET r == determine_actions(c.outdoor_temp, c.outdoor_humidity, Some(a),
                                             c.preferred_min, c.preferred_max,
                                             c.outdoor_threshold, c.season,
                                             c.is_room_occupied)
                  IN  <<r[1], r[2], r[3]>> =
                          <<ac_status, humidifier_status, dehumidifier_status>>

\* an occupied, hot, dry Summer room without an air quality reading
C7_Witness ==
    \E c \in determine_actions_calls :
        /\ c.aqi = None
        /\ c.is_room_occupied
        /\ c.season = "Summer"
        /\ ac_status = "ON"
        /\ humidifier_status = "ON"
        /\ air_purifier_status = "OFF"

\* C8 - fetch failure never reaches the engine: after an execution of the
\* real-time branch in which fetch_weather reported failure, neither
\* determine_season nor determine_actions was invoked and no device state exists;
\* determine_actions was invoked only after a successful weather fetch, with the
\* fetched temperature and humidity, and a failed AQI fetch is passed as None.
C8_FetchFailureNeverReachesEngine ==
    /\ (status_code # None /\ status_code # Some(HTTP_OK)) =>
          /\ temp = None
          /\ determine_season_calls = {}
          /\ determine_actions_calls = {}
          /\ season = "unset"
          /\ ac_status = "unset"
          /\ humidifier_status = "unset"
          /\ dehumidifier_status = "unset"
          /\ air_purifier_status = "unset"
    /\ (weather_source = RealTime /\ temp = None) =>
          determine_season_calls = {} /\ determine_actions_calls = {}
    /\ \A c \in determine_actions_calls :
          weather_source = RealTime =>
              /\ status_code = Some(HTTP_OK)
              /\ temp = Some(c.outdoor_temp)
              /\ humidity = Some(c.outdoor_humidity)
              /\ aqi = c.aqi

\* the weather fetch failed in the last execution
C8_Witness ==
    /\ weather_source = RealTime
    /\ status_code # None
    /\ status_code # Some(HTTP_OK)
    /\ determine_actions_calls = {}
    /\ ac_status = "unset"

\* C9 - engine composed with the classifier: in the session, where the season
\* passed is determine_season of the temperature passed, a temperature in
\* 15..30 leaves humidifier and dehumidifier OFF whatever the humidity; one of
\* them is ON only below 15 or above 30.
C9_NoHumidityControlInMildBands ==
    \A c \in determine_actions_calls :
        /\ (Deg(15) <= c.outdoor_temp /\ c.outdoor_temp <= Deg(30)) =>
              (humidifier_status = "OFF" /\ dehumidifier_status = "OFF")
        /\ (humidifier_status = "ON" \/ dehumidifier_status = "ON") =>
              (c.outdoor_temp < Deg(15) \/ c.outdoor_temp > Deg(30))

\* an occupied room at 30 degrees with a humidity the Summer rule would act on
C9_Witness ==
    \E c \in determine_actions_calls :
        /\ c.is_room_occupied
        /\ c.outdoor_temp = Deg(30)
        /\ c.outdoor_humidity < 40
        /\ c.season = "Mild"
        /\ humidifier_status = "OFF"

\* C10 - image and season label agree: for every temperature, cold_weather.png
\* is chosen exactly when the season is Winter, hot_weather.png exactly when
\* Summer, mild_weather.png exactly when Mild and energy_saving.png exactly when
\* Energy Saving.
C10_ImageAgreesWithSeason ==
    \A t \in determine_season_calls :
        /\ weather_image = "cold_weather.png" <=> season = "Winter"
        /\ weather_image = "hot_weather.png" <=> season = "Summer"
        /\ weather_image = "mild_weather.png" <=> season = "Mild"
        /\ weather_image = "energy_saving.png" <=> season = "Energy Saving"

\* just above 30 degrees, where the two functions decide in different branches
C10_Witness ==
    /\ Deg(30) + 1 \in determine_season_calls
    /\ season = "Summer"
    /\ weather_image = "hot_weather.png"

====
